---- MODULE Spec2Model ----
(***************************************************************************)
(* A model of the cjson codec (src/cjson.c, src/cjson.h): the parser with  *)
(* its scratch stack, the serializer, structural equality, key lookup and  *)
(* release, driven by a small harness in the style of src/test_cjson.c.    *)
(*                                                                         *)
(* Bytes are the integers 0..255.  A zero-terminated C string is the       *)
(* sequence of its bytes before the terminator; reading at or past the end *)
(* yields the terminator 0.  Heap blocks are numbered 1, 2, ... and 0 is   *)
(* the NULL pointer.                                                       *)
(***************************************************************************)
EXTENDS Integers, Sequences, FiniteSets, TLC

VARIABLES json, json2, value, state, heap, text, eq, frees, pctx, sctx, pc

vars == <<json, json2, value, state, heap, text, eq, frees, pctx, sctx, pc>>

RECURSIVE FindLoopStr(_, _, _, _, _)
RECURSIVE CutZeros(_)
RECURSIVE SkipWhile(_, _, _)
RECURSIVE GrowLoop(_, _)
RECURSIVE SumSz(_)
RECURSIVE KeepBelow(_, _)
RECURSIVE DigitsToInt(_, _)
RECURSIVE StripZeros(_)
RECURSIVE IntDigits(_)
RECURSIVE LastFreed(_, _, _, _)
RECURSIVE cjson_free_value(_, _)
RECURSIVE FreeElements(_, _, _)
RECURSIVE FreeMembers(_, _, _)
RECURSIVE Hex4Loop(_, _, _, _)
RECURSIVE StringLoop(_, _, _)
RECURSIVE cjson_parse_value(_, _)
RECURSIVE cjson_parse_array(_, _)
RECURSIVE ArrayLoop(_, _, _, _)
RECURSIVE PopFreeElements(_, _)
RECURSIVE cjson_parse_object(_, _)
RECURSIVE ObjectLoop(_, _, _, _)
RECURSIVE PopFreeMembers(_, _)
RECURSIVE StringifyBytes(_, _)
RECURSIVE cjson_stringify_value(_, _, _)
RECURSIVE StringifyElements(_, _, _, _)
RECURSIVE StringifyMembers(_, _, _, _)
RECURSIVE FindLoop(_, _, _, _, _)
RECURSIVE cjson_is_equal(_, _, _)
RECURSIVE EqualElements(_, _, _, _, _)
RECURSIVE EqualMembers(_, _, _, _, _)
RECURSIVE BitOr(_, _)
RECURSIVE Flatten(_)
RECURSIVE Utf8Valid(_)

(***************************************************************************)
(* cjson.h: the type tags and the parse states.                            *)
(***************************************************************************)
CJSON_NULL == 0
CJSON_TRUE == 1
CJSON_FALSE == 2
CJSON_NUMBER == 3
CJSON_STRING == 4
CJSON_ARRAY == 5
CJSON_OBJECT == 6
\* A tag outside cjson_type, as the tests write one into a value.
PARSE_WRONG_TYPE == 128

CJSON_PARSE_OK == 0
CJSON_PARSE_EXPECT_VALUE == 1
CJSON_PARSE_INVALID_VALUE == 2
CJSON_PARSE_ROOT_NOT_SINGULAR == 3
CJSON_PARSE_NUMBER_TOO_BIG == 4
CJSON_PARSE_MISS_QUOTATION_MARK == 5
CJSON_PARSE_INVALID_STRING_ESCAPE == 6
CJSON_PARSE_INVALID_STRING_CHAR == 7
CJSON_PARSE_INVALID_UNICODE_HEX == 8
CJSON_PARSE_INVALID_UNICODE_SURROGATE == 9
CJSON_PARSE_MISS_COMMA_OR_SQUARE_BRACKET == 10
CJSON_PARSE_MISS_KEY == 11
CJSON_PARSE_MISS_COLON == 12
CJSON_PARSE_MISS_COMMA_OR_CURLY_BRACKET == 13
CJSON_PARSE_NULL == 14

CJSON_PARSE_STACK_INIT_SIZE == 32
CJSON_STRINGIFY_STACI_INIT_SIZE == 256

\* sizeof(cjson_value) and sizeof(cjson_member) on an LP64 target: a 16-byte
\* union plus the tag, padded to 24; a pointer, a size_t and a cjson_value.
SizeofValue == 24
SizeofMember == 40

\* The largest decimal exponent of a finite double (DBL_MAX_10_EXP); strtod
\* reports overflow (HUGE_VAL, ERANGE) beyond it.
DblMax10Exp == 308

(***************************************************************************)
(* Bounds of the model.                                                    *)
(***************************************************************************)
\* Tokens placed in each input context, and units between the quotes of a
\* string (Spec).
MaxTokens == 2
\* Members of each of the two objects compared in SpecEq.
MaxMembers == 2
\* Lookups made on one parsed object.
MaxLookups == 2

(***************************************************************************)
(* Bytes and C strings.                                                    *)
(***************************************************************************)
CH == [nul |-> 0, bs |-> 8, tab |-> 9, lf |-> 10, ff |-> 12, cr |-> 13,
       sp |-> 32, dq |-> 34, plus |-> 43, comma |-> 44, minus |-> 45,
       dot |-> 46, slash |-> 47, zero |-> 48, one |-> 49, nine |-> 57,
       colon |-> 58, A |-> 65, E |-> 69, F |-> 70, lbrack |-> 91,
       bslash |-> 92, rbrack |-> 93, a |-> 97, b |-> 98, e |-> 101,
       f |-> 102, l |-> 108, n |-> 110, r |-> 114, s |-> 115, t |-> 116,
       u |-> 117, x |-> 120, lbrace |-> 123, rbrace |-> 125]

\* *(s + i - 1) of the zero-terminated string s (positions count from 1).
At(s, i) == IF i >= 1 /\ i <= Len(s) THEN s[i] ELSE 0

\* strlen of the string that starts at position i of s.
StrlenFrom(s, i) == IF i > Len(s) THEN 0 ELSE Len(s) - i + 1

\* The first position >= i whose byte is not in set (the terminator never is).
SkipWhile(s, i, set) ==
    IF At(s, i) \in set THEN SkipWhile(s, i + 1, set) ELSE i

ISDIGIT(ch) == ch >= 48 /\ ch <= 57
ISDIGIT1TO9(ch) == ch >= 49 /\ ch <= 57
Digits == 48..57

\* a | b on bytes.
BitOr(a, b) ==
    IF a = 0 THEN b
    ELSE IF b = 0 THEN a
    ELSE 2 * BitOr(a \div 2, b \div 2) + (IF a % 2 = 1 \/ b % 2 = 1 THEN 1 ELSE 0)

Flatten(ss) == IF ss = <<>> THEN <<>> ELSE Head(ss) \o Flatten(Tail(ss))

(***************************************************************************)
(* The heap: malloc and free.  A later malloc of the same kind and length  *)
(* may hand the most recently freed block out again (reuse) or always      *)
(* return fresh storage, as the allocator of the build decides.  What a    *)
(* freed block holds is indeterminate: the allocator may leave the bytes   *)
(* (scrub FALSE) or overwrite them with its own bookkeeping, which the     *)
(* model writes as zero bytes (scrub TRUE).  free of a block that is not   *)
(* live is counted in bad.                                                 *)
(***************************************************************************)
EmptyHeap == [blocks |-> <<>>, freed |-> <<>>, bad |-> 0, scrub |-> FALSE]

\* The position in h.freed, at or below i, of the most recently freed block
\* of this kind and length; 0 when there is none.
LastFreed(h, i, kind, len) ==
    IF i = 0 THEN 0
    ELSE IF h.blocks[h.freed[i]].kind = kind /\ Len(h.blocks[h.freed[i]].data) = len
         THEN i
         ELSE LastFreed(h, i - 1, kind, len)

Malloc(h, reuse, kind, data) ==
    LET blk == [live |-> TRUE, kind |-> kind, data |-> data]
        k == IF reuse THEN LastFreed(h, Len(h.freed), kind, Len(data)) ELSE 0
    IN  IF k = 0
        THEN [h |-> [h EXCEPT !.blocks = Append(@, blk)], p |-> Len(h.blocks) + 1]
        ELSE [h |-> [h EXCEPT !.blocks[h.freed[k]] = blk,
                              !.freed = SubSeq(@, 1, k - 1) \o SubSeq(@, k + 1, Len(@))],
              p |-> h.freed[k]]

\* The bytes of a freed block.
Scrubbed(h, blk) ==
    IF h.scrub /\ blk.kind = "str" THEN [i \in 1..Len(blk.data) |-> 0] ELSE blk.data

Free(h, p) ==
    IF p = 0 THEN h
    ELSE IF h.blocks[p].live
         THEN [h EXCEPT !.blocks[p].live = FALSE, !.blocks[p].data = Scrubbed(h, h.blocks[p]),
                        !.freed = Append(@, p)]
         ELSE [h EXCEPT !.bad = @ + 1]

LiveBlocks(h) == {i \in 1..Len(h.blocks) : h.blocks[i].live}

(***************************************************************************)
(* cjson_value: the tag, and the union's pointer word (members, elements,  *)
(* str), its count word (mem_size, size, len) and the double.  The double  *)
(* shares its storage with the pointer word; the model keeps the two       *)
(* apart, which no code path can tell: each reads only the word that the   *)
(* tag it has just tested names.                                           *)
(***************************************************************************)
Zero == [neg |-> FALSE, inf |-> FALSE, mant |-> 0, exp |-> 0]

NullValue == [type |-> CJSON_NULL, p |-> 0, n |-> 0, number |-> Zero]

\* lhs->number == rhs->number on doubles: -0 equals 0.
NumberEq(x, y) ==
    /\ x.inf = y.inf /\ x.mant = y.mant /\ x.exp = y.exp
    /\ (x.neg = y.neg \/ (x.mant = 0 /\ ~x.inf))

(***************************************************************************)
(* cjson_context and the scratch stack.  stack holds what lies below top:  *)
(* bytes (sz 1), staged values (sz 24) and staged members (sz 40).  size   *)
(* is the recorded capacity, cap the byte length of the allocation.        *)
(***************************************************************************)
SumSz(items) == IF items = <<>> THEN 0 ELSE Head(items).sz + SumSz(Tail(items))

\* The items that lie wholly below byte offset head.
KeepBelow(items, head) ==
    IF SumSz(items) > head THEN KeepBelow(SubSeq(items, 1, Len(items) - 1), head)
    ELSE items

\* while (top + size >= context->size) context->size += context->size >> 1;
\* -1 when the loop cannot end (size >> 1 is 0).
GrowLoop(need, size) ==
    IF need >= size
    THEN IF size \div 2 = 0 THEN -1 ELSE GrowLoop(need, size + size \div 2)
    ELSE size

cjson_context_push(c, size) ==
    IF c.top + size >= c.size
    THEN LET s0 == IF c.size = 0 THEN CJSON_PARSE_STACK_INIT_SIZE ELSE c.size
             s1 == GrowLoop(c.top + size, s0)
         IN  IF s1 = -1 THEN [c EXCEPT !.hung = TRUE]
             ELSE [c EXCEPT !.size = s1, !.cap = s1, !.top = @ + size,
                            !.fits = @ /\ c.top + size <= s1]
    ELSE [c EXCEPT !.top = @ + size, !.fits = @ /\ c.top + size <= c.cap]

\* push(c, sz) followed by the store of one item of that size.
PushItem(c, sz, x) ==
    [cjson_context_push(c, sz) EXCEPT !.stack = Append(@, [sz |-> sz, x |-> x])]

PUTC(c, ch) == PushItem(c, 1, ch % 256)

\* The context after the pop, and the items of the region popped.
cjson_context_pop(c, size) ==
    LET kept == KeepBelow(c.stack, c.top - size)
    IN  [c |-> [c EXCEPT !.top = @ - size, !.stack = kept],
         items |-> SubSeq(c.stack, Len(kept) + 1, Len(c.stack))]

Payload(items) == [i \in 1..Len(items) |-> items[i].x]

cjson_parse_error_keeps_top(c, head, error) == [ret |-> error, c |-> c]

cjson_parse_error(c, head, error) ==
    [ret |-> error, c |-> [c EXCEPT !.top = head, !.stack = KeepBelow(@, head)]]

(***************************************************************************)
(* Lexer primitives.                                                       *)
(***************************************************************************)
\* far is the highest position of json that has been read.  The reads of the
\* dispatcher, of the separators of arrays and objects and of the end check
\* of cjson_parse are of the byte at which the cjson_parse_whitespace before
\* them stopped.
Saw(c, i) == [c EXCEPT !.far = IF i > @ THEN i ELSE @]

cjson_parse_whitespace(c) ==
    Saw([c EXCEPT !.p = SkipWhile(c.json, c.p, {CH.sp, CH.tab, CH.lf, CH.cr})],
        SkipWhile(c.json, c.p, {CH.sp, CH.tab, CH.lf, CH.cr}))

\* strncmp(context->json, str, strlen(str)) == 0
StartsWith(s, i, str) == \A k \in 1..Len(str) : At(s, i + k - 1) = str[k]

\* strlen(context->json) reads up to the terminator.
cjson_parse_str(c, v, str, type) ==
    IF StrlenFrom(c.json, c.p) < Len(str)
    THEN [ret |-> CJSON_PARSE_INVALID_VALUE,
          c |-> Saw(c, c.p + StrlenFrom(c.json, c.p)), v |-> v]
    ELSE IF StartsWith(c.json, c.p, str)
         THEN [ret |-> CJSON_PARSE_OK,
               c |-> [Saw(c, c.p + StrlenFrom(c.json, c.p)) EXCEPT !.p = @ + Len(str)],
               v |-> [v EXCEPT !.type = type]]
         ELSE [ret |-> CJSON_PARSE_INVALID_VALUE,
               c |-> Saw(c, c.p + StrlenFrom(c.json, c.p)), v |-> v]

(***************************************************************************)
(* The number codec.  A double is kept as sign, mantissa and decimal       *)
(* exponent with no trailing zero in the mantissa; this is exact for the   *)
(* integers below 2^53 and the other decimals a double represents exactly. *)
(***************************************************************************)
DigitsToInt(ds, acc) ==
    IF ds = <<>> THEN acc ELSE DigitsToInt(Tail(ds), 10 * acc + (Head(ds) - 48))

StripZeros(d) ==
    IF d.mant = 0 THEN [d EXCEPT !.exp = 0]
    ELSE IF d.mant % 10 = 0 THEN StripZeros([d EXCEPT !.mant = @ \div 10, !.exp = @ + 1])
    ELSE d

IntDigits(k) ==
    IF k < 10 THEN <<48 + k>> ELSE Append(IntDigits(k \div 10), 48 + (k % 10))

\* The decimal exponent of the leading digit.
Order(d) == Len(IntDigits(d.mant)) - 1 + d.exp

\* strtod(s + p0 - 1): strtod scans its own longest decimal prefix (sign,
\* digits, fraction, exponent), which may run past the span the grammar
\* check accepted, as in "01e999".  Hexadecimal, "inf" and "nan" forms are
\* outside the bytes the model feeds it.
ExpDigitsValue(s, q) ==
    IF ~ISDIGIT(At(s, q)) THEN 0
    ELSE DigitsToInt(SubSeq(s, q, SkipWhile(s, q, Digits) - 1), 0)

ExpValue(s, p) ==
    IF At(s, p) \notin {CH.e, CH.E} THEN 0
    ELSE IF At(s, p + 1) = CH.minus THEN 0 - ExpDigitsValue(s, p + 2)
    ELSE IF At(s, p + 1) = CH.plus THEN ExpDigitsValue(s, p + 2)
    ELSE ExpDigitsValue(s, p + 1)

\* The result for the decimal d: HUGE_VAL above DBL_MAX, zero below the
\* smallest subnormal.
StrtodRound(d) ==
    IF d.mant = 0 THEN d
    ELSE IF Order(d) > DblMax10Exp THEN [d EXCEPT !.inf = TRUE, !.mant = 0, !.exp = 0]
    ELSE IF Order(d) < 0 - 324 THEN [d EXCEPT !.mant = 0, !.exp = 0]
    ELSE d

\* The digits without their trailing zeros, which go into the exponent.
CutZeros(ds) ==
    IF ds # <<>> /\ ds[Len(ds)] = CH.zero THEN CutZeros(SubSeq(ds, 1, Len(ds) - 1)) ELSE ds

StrtodDigits(s, p0, p2, p3, ds) ==
    StrtodRound(StripZeros(
        [neg |-> At(s, p0) = CH.minus, inf |-> FALSE,
         mant |-> DigitsToInt(CutZeros(ds), 0),
         exp |-> ExpValue(s, p3) - (IF p3 > p2 THEN p3 - p2 - 1 ELSE 0)
                     + (Len(ds) - Len(CutZeros(ds)))]))

\* Integer digits lie in p1..p2-1 and, after a '.', fraction digits up to p3-1.
StrtodValue(s, p0, p1, p2, p3) ==
    IF p2 = p1 /\ p3 <= p2 + 1 THEN Zero
    ELSE StrtodDigits(s, p0, p2, p3, SubSeq(s, p1, p2 - 1) \o SubSeq(s, p2 + 1, p3 - 1))

StrtodFrac(s, p0, p1, p2) ==
    StrtodValue(s, p0, p1, p2,
                IF At(s, p2) = CH.dot THEN SkipWhile(s, p2 + 1, Digits) ELSE p2)

StrtodInt(s, p0, p1) == StrtodFrac(s, p0, p1, SkipWhile(s, p1, Digits))

strtod(s, p0) ==
    StrtodInt(s, p0, IF At(s, p0) \in {CH.minus, CH.plus} THEN p0 + 1 ELSE p0)

\* The grammar check of cjson_parse_number, one operator per part; each gives
\* the position after the part, which is the last one it read, or for the
\* return of CJSON_PARSE_INVALID_VALUE minus the position of the byte it
\* read last.
NumSign(s, p) == IF At(s, p) = CH.minus THEN p + 1 ELSE p

NumInt(s, p) ==
    IF At(s, p) = CH.zero THEN p + 1
    ELSE IF ~ISDIGIT1TO9(At(s, p)) THEN 0 - p
    ELSE SkipWhile(s, p + 1, Digits)

NumFrac(s, p) ==
    IF p <= 0 THEN p
    ELSE IF At(s, p) # CH.dot THEN p
    ELSE IF ~ISDIGIT(At(s, p + 1)) THEN 0 - (p + 1)
    ELSE SkipWhile(s, p + 2, Digits)

NumExpDigits(s, q) == IF ~ISDIGIT(At(s, q)) THEN 0 - q ELSE SkipWhile(s, q + 1, Digits)

NumExp(s, p) ==
    IF p <= 0 THEN p
    ELSE IF At(s, p) \notin {CH.e, CH.E} THEN p
    ELSE NumExpDigits(s, IF At(s, p + 1) \in {CH.plus, CH.minus} THEN p + 2 ELSE p + 1)

\* value->number = strtod(context->json, NULL); and what follows it.
NumberResult(c, v, end, number) ==
    IF end <= 0
    THEN [ret |-> CJSON_PARSE_INVALID_VALUE, c |-> Saw(c, 0 - end), v |-> v]
    ELSE IF number.inf
         THEN [ret |-> CJSON_PARSE_NUMBER_TOO_BIG, c |-> c,
               v |-> [v EXCEPT !.number = number]]
         ELSE [ret |-> CJSON_PARSE_OK, c |-> [c EXCEPT !.p = end],
               v |-> [v EXCEPT !.number = number, !.type = CJSON_NUMBER]]

\* The position at which strtod stops reading: after the digits, or at the
\* byte after an 'e' and its sign that is no digit.
StrtodExpEnd(s, p) ==
    IF At(s, p) \notin {CH.e, CH.E} THEN p
    ELSE SkipWhile(s, IF At(s, p + 1) \in {CH.plus, CH.minus} THEN p + 2 ELSE p + 1, Digits)

StrtodFracEnd(s, p2) ==
    StrtodExpEnd(s, IF At(s, p2) = CH.dot THEN SkipWhile(s, p2 + 1, Digits) ELSE p2)

StrtodEnd(s, p0) ==
    StrtodFracEnd(s, SkipWhile(s, IF At(s, p0) \in {CH.minus, CH.plus} THEN p0 + 1 ELSE p0,
                               Digits))

\* The grammar check read up to end; strtod is called when it passed.
NumberSaw(c, end) == IF end <= 0 THEN c ELSE Saw(Saw(c, end), StrtodEnd(c.json, c.p))

NumberScan(c, v, end) == NumberResult(NumberSaw(c, end), v, end, strtod(c.json, c.p))

cjson_parse_number(c, v) ==
    NumberScan(c, v, NumExp(c.json, NumFrac(c.json, NumInt(c.json, NumSign(c.json, c.p)))))

(***************************************************************************)
(* Release.  The heap after the call, and the value as the call leaves it. *)
(***************************************************************************)
\* for (i = from - 1; i < value->size; i++) cjson_free_value(&elements[i]);
\* each element is released through the backing block and its tag written
\* back there.
FreeElements(h, v, from) ==
    IF from > v.n THEN h
    ELSE LET r == cjson_free_value(h, h.blocks[v.p].data[from])
         IN  FreeElements([r.h EXCEPT !.blocks[v.p].data[from] = r.v], v, from + 1)

FreeMembers(h, v, from) ==
    IF from > v.n THEN h
    ELSE LET m == h.blocks[v.p].data[from]
             r == cjson_free_value(Free(h, m.key), m.value)
         IN  FreeMembers([r.h EXCEPT !.blocks[v.p].data[from].value = r.v], v, from + 1)

cjson_free_value_keeps_tag(h, v) ==
    CASE v.type = CJSON_STRING -> [h |-> Free(h, v.p), v |-> v]
      [] v.type = CJSON_ARRAY -> [h |-> Free(FreeElements(h, v, 1), v.p), v |-> v]
      [] v.type = CJSON_OBJECT -> [h |-> Free(FreeMembers(h, v, 1), v.p), v |-> v]
      [] OTHER -> [h |-> h, v |-> v]

cjson_free_value(h, v) ==
    CASE v.type = CJSON_STRING ->
           [h |-> Free(h, v.p), v |-> [v EXCEPT !.type = CJSON_NULL]]
      [] v.type = CJSON_ARRAY ->
           [h |-> Free(FreeElements(h, v, 1), v.p), v |-> [v EXCEPT !.type = CJSON_NULL]]
      [] v.type = CJSON_OBJECT ->
           [h |-> Free(FreeMembers(h, v, 1), v.p), v |-> [v EXCEPT !.type = CJSON_NULL]]
      [] OTHER -> [h |-> h, v |-> v]

(***************************************************************************)
(* The string decoder.                                                     *)
(***************************************************************************)
HexDigit(ch) ==
    IF ch >= CH.zero /\ ch <= CH.nine THEN ch - CH.zero
    ELSE IF ch >= CH.A /\ ch <= CH.F THEN ch - (CH.A - 10)
    ELSE IF ch >= CH.a /\ ch <= CH.f THEN ch - (CH.a - 10)
    ELSE 0 - 1

\* i digits read so far; p is the next position.  ok is FALSE for the NULL
\* return.
Hex4Loop(s, p, i, u) ==
    IF i = 4 THEN [ok |-> TRUE, p |-> p, u |-> u]
    ELSE IF HexDigit(At(s, p)) < 0 THEN [ok |-> FALSE, p |-> p + 1, u |-> u * 16]
    ELSE Hex4Loop(s, p + 1, i + 1, u * 16 + HexDigit(At(s, p)))

\* A decoder that reads its four bytes before it looks at them.
cjson_parse_hex4_reads_four(s, p) ==
    IF Hex4Loop(s, p, 0, 0).ok THEN Hex4Loop(s, p, 0, 0)
    ELSE [Hex4Loop(s, p, 0, 0) EXCEPT !.p = p + 4]

cjson_parse_hex4(s, p) == Hex4Loop(s, p, 0, 0)

cjson_encode_utf8(c, u) ==
    IF u <= 127 THEN PUTC(c, u % 256)
    ELSE IF u <= 2047
    THEN PUTC(PUTC(c, BitOr(192, (u \div 64) % 256)), BitOr(128, u % 64))
    ELSE IF u <= 65535
    THEN PUTC(PUTC(PUTC(c, BitOr(224, (u \div 4096) % 256)),
                   BitOr(128, (u \div 64) % 64)),
              BitOr(128, u % 64))
    ELSE PUTC(PUTC(PUTC(PUTC(c, BitOr(240, (u \div 262144) % 256)),
                        BitOr(128, (u \div 4096) % 64)),
                   BitOr(128, (u \div 64) % 64)),
              BitOr(128, u % 64))

StringError(c, head, error) ==
    [ret |-> error, c |-> cjson_parse_error(c, head, error).c, str |-> <<>>, len |-> 0]

SimpleEscapes == {CH.dq, CH.bslash, CH.slash, CH.b, CH.f, CH.n, CH.r, CH.t}

Unescape(ch) ==
    CASE ch = CH.b -> CH.bs
      [] ch = CH.f -> CH.ff
      [] ch = CH.n -> CH.lf
      [] ch = CH.r -> CH.cr
      [] ch = CH.t -> CH.tab
      [] OTHER -> ch

\* case 'u' of the escape switch; p is the position after the 'u'.
UnicodeEscape(c, head, p) ==
    LET s == c.json
        h1 == cjson_parse_hex4(s, p)
        h2 == cjson_parse_hex4(s, h1.p + 2)
    IN  IF ~h1.ok THEN StringError(Saw(c, h1.p - 1), head, CJSON_PARSE_INVALID_UNICODE_HEX)
        ELSE IF h1.u >= 55296 /\ h1.u <= 56319
        THEN IF At(s, h1.p) # CH.bslash
             THEN StringError(Saw(c, h1.p), head, CJSON_PARSE_INVALID_UNICODE_SURROGATE)
             ELSE IF At(s, h1.p + 1) # CH.u
             THEN StringError(Saw(c, h1.p + 1), head, CJSON_PARSE_INVALID_UNICODE_SURROGATE)
             ELSE IF ~h2.ok
             THEN StringError(Saw(c, h2.p - 1), head, CJSON_PARSE_INVALID_UNICODE_HEX)
             ELSE IF h2.u < 56320 \/ h2.u > 57343
             THEN StringError(Saw(c, h2.p - 1), head, CJSON_PARSE_INVALID_UNICODE_SURROGATE)
             ELSE StringLoop(cjson_encode_utf8(Saw(c, h2.p - 1),
                                 (h1.u - 55296) * 1024 + (h2.u - 56320) + 65536),
                             head, h2.p)
        ELSE StringLoop(cjson_encode_utf8(Saw(c, h1.p - 1), h1.u), head, h1.p)

\* The while (1) of cjson_parse_string_raw; p is the position of the next
\* byte to read.
StringLoop(c, head, p) ==
    LET ch == At(c.json, p)
        esc == At(c.json, p + 1)
    IN  CASE ch = CH.dq ->
               LET r == cjson_context_pop(c, c.top - head)
               IN  [ret |-> CJSON_PARSE_OK, c |-> Saw([r.c EXCEPT !.p = p + 1], p),
                    str |-> Payload(r.items), len |-> c.top - head]
          [] ch = CH.bslash ->
               IF esc \in SimpleEscapes
               THEN StringLoop(PUTC(Saw(c, p + 1), Unescape(esc)), head, p + 2)
               ELSE IF esc = CH.u THEN UnicodeEscape(Saw(c, p + 1), head, p + 2)
               ELSE StringError(Saw(c, p + 1), head, CJSON_PARSE_INVALID_STRING_ESCAPE)
          [] ch = CH.nul -> StringError(Saw(c, p), head, CJSON_PARSE_MISS_QUOTATION_MARK)
          [] OTHER ->
               IF ch < 32 THEN StringError(Saw(c, p), head, CJSON_PARSE_INVALID_STRING_CHAR)
               ELSE StringLoop(PUTC(Saw(c, p), ch), head, p + 1)

cjson_parse_string_raw(c) == StringLoop(c, c.top, c.p + 1)

\* cjson_free_value(value) then the malloc and memcpy; freed is what
\* cjson_free_value returned.
SetStringCopy(freed, reuse, src, len) ==
    LET m == Malloc(freed.h, reuse, "str", Append(src, 0))
    IN  [h |-> m.h, v |-> [freed.v EXCEPT !.p = m.p, !.n = len, !.type = CJSON_STRING]]

cjson_set_string(h, reuse, v, src, len) ==
    SetStringCopy(cjson_free_value(h, v), reuse, src, len)

\* The part of cjson_parse_string after cjson_parse_string_raw returned r.
ParseStringSet(r, v) ==
    IF r.ret = CJSON_PARSE_OK
    THEN LET w == cjson_set_string(r.c.h, r.c.reuse, v, r.str, r.len)
         IN  [ret |-> r.ret, c |-> [r.c EXCEPT !.h = w.h], v |-> w.v]
    ELSE [ret |-> r.ret, c |-> r.c, v |-> v]

cjson_parse_string(c, v) == ParseStringSet(cjson_parse_string_raw(c), v)

(***************************************************************************)
(* Arrays, objects and the dispatcher.                                     *)
(*                                                                         *)
(* The locals `element` (cjson_parse_array) and `member` (cjson_parse_     *)
(* object) are declared in the loop body without an initializer and are    *)
(* handed to cjson_parse_value, whose string case releases the value it is *)
(* given before filling it (cjson_set_string).  What the local holds at    *)
(* the start of an iteration is indeterminate: with c.stale it still holds *)
(* the bits the previous iteration left there, otherwise a pattern whose   *)
(* tag owns nothing.  The first iteration is given a pattern that owns     *)
(* nothing.                                                                *)
(***************************************************************************)
Indeterminate == NullValue

NextLocal(c, left) == IF c.stale THEN left ELSE Indeterminate

\* cjson_free_value on the value just popped.
FreePopped(r) == [r.c EXCEPT !.h = cjson_free_value(r.c.h, r.items[1].x).h]

\* for (i = 0; i < size; i++) cjson_free_value(pop(sizeof(cjson_value)));
PopFreeElements(c, size) ==
    IF size = 0 THEN c
    ELSE PopFreeElements(FreePopped(cjson_context_pop(c, SizeofValue)), size - 1)

\* case ']': the staged elements, popped, are copied to a block of their own.
ArrayEnd(popped, v, size) ==
    LET m == Malloc(popped.c.h, popped.c.reuse, "arr", Payload(popped.items))
    IN  [ret |-> CJSON_PARSE_OK, c |-> [popped.c EXCEPT !.h = m.h],
         v |-> [v EXCEPT !.type = CJSON_ARRAY, !.n = size, !.p = m.p]]

\* The switch on the byte after an element; size counts the element staged
\* last, left is what the local `element` holds.
ArrayNext(c, v, size, left) ==
    IF At(c.json, c.p) = CH.comma
    THEN ArrayLoop(cjson_parse_whitespace([c EXCEPT !.p = @ + 1]), v, size, NextLocal(c, left))
    ELSE IF At(c.json, c.p) = CH.rbrack
    THEN ArrayEnd(cjson_context_pop([c EXCEPT !.p = @ + 1], size * SizeofValue), v, size)
    ELSE [ret |-> CJSON_PARSE_MISS_COMMA_OR_SQUARE_BRACKET,
          c |-> PopFreeElements(c, size), v |-> v]

\* The part of the loop body after cjson_parse_value returned r.
ArrayElement(r, v, size) ==
    IF r.ret # CJSON_PARSE_OK
    THEN [ret |-> r.ret, c |-> PopFreeElements(r.c, size), v |-> v]
    ELSE ArrayNext(cjson_parse_whitespace(PushItem(r.c, SizeofValue, r.v)), v, size + 1, r.v)

\* The while (1) of cjson_parse_array: size elements are staged and element
\* is what the local holds.
ArrayLoop(c, v, size, element) == ArrayElement(cjson_parse_value(c, element), v, size)

\* c is the context after the whitespace that follows '['.
ArrayBody(c, v) ==
    IF At(c.json, c.p) = CH.rbrack
    THEN [ret |-> CJSON_PARSE_OK, c |-> [c EXCEPT !.p = @ + 1],
          v |-> [v EXCEPT !.type = CJSON_ARRAY, !.p = 0, !.n = 0]]
    ELSE ArrayLoop(c, v, 0, Indeterminate)

cjson_parse_array(c, v) == ArrayBody(cjson_parse_whitespace([c EXCEPT !.p = @ + 1]), v)

\* free(key) and cjson_free_value(&value) on the member just popped.
FreePoppedMember(r) ==
    [r.c EXCEPT !.h = cjson_free_value(Free(r.c.h, r.items[1].x.key), r.items[1].x.value).h]

\* The release loop after the while (1) of cjson_parse_object.
PopFreeMembers(c, mem_size) ==
    IF mem_size = 0 THEN c
    ELSE PopFreeMembers(FreePoppedMember(cjson_context_pop(c, SizeofMember)), mem_size - 1)

ObjectFail(c, v, mem_size, error) ==
    [ret |-> error, c |-> PopFreeMembers(c, mem_size),
     v |-> [v EXCEPT !.type = CJSON_NULL]]

\* case '}': the staged members, popped, are copied to a block of their own.
ObjectEnd(popped, v, mem_size) ==
    LET m == Malloc(popped.c.h, popped.c.reuse, "obj", Payload(popped.items))
    IN  [ret |-> CJSON_PARSE_OK, c |-> [popped.c EXCEPT !.h = m.h],
         v |-> [v EXCEPT !.type = CJSON_OBJECT, !.n = mem_size, !.p = m.p]]

\* The switch on the byte after a member; mem_size counts the member staged
\* last, left is what member.value holds.
ObjectNext(c, v, mem_size, left) ==
    IF At(c.json, c.p) = CH.comma
    THEN ObjectLoop(cjson_parse_whitespace([c EXCEPT !.p = @ + 1]), v, mem_size,
                    NextLocal(c, left))
    ELSE IF At(c.json, c.p) = CH.rbrace
    THEN ObjectEnd(cjson_context_pop([c EXCEPT !.p = @ + 1], mem_size * SizeofMember),
                   v, mem_size)
    ELSE ObjectFail(c, v, mem_size, CJSON_PARSE_MISS_COMMA_OR_CURLY_BRACKET)

\* The part of the loop body after cjson_parse_value returned r for the
\* member whose key block is key.
ObjectValue(r, key, klen, v, mem_size) ==
    IF r.ret # CJSON_PARSE_OK
    THEN ObjectFail([r.c EXCEPT !.h = Free(@, key)], v, mem_size, r.ret)
    ELSE ObjectNext(cjson_parse_whitespace(
                        PushItem(r.c, SizeofMember,
                                 [key |-> key, klen |-> klen, value |-> r.v])),
                    v, mem_size + 1, r.v)

\* The colon; c is the context after the whitespace that follows the key.
ObjectColon(c, key, klen, v, mem_size, mvalue) ==
    IF At(c.json, c.p) # CH.colon
    THEN ObjectFail([c EXCEPT !.h = Free(@, key)], v, mem_size, CJSON_PARSE_MISS_COLON)
    ELSE ObjectValue(cjson_parse_value(cjson_parse_whitespace([c EXCEPT !.p = @ + 1]), mvalue),
                     key, klen, v, mem_size)

\* member.key = malloc(len + 1) and the memcpy; km is what malloc returned.
ObjectKeyCopy(k, km, v, mem_size, mvalue) ==
    ObjectColon(cjson_parse_whitespace([k.c EXCEPT !.h = km.h]), km.p, k.len, v, mem_size,
                mvalue)

\* The part of the loop body after cjson_parse_string_raw returned k.
ObjectKey(k, v, mem_size, mvalue) ==
    IF k.ret # CJSON_PARSE_OK
    THEN ObjectFail(k.c, v, mem_size, k.ret)
    ELSE ObjectKeyCopy(k, Malloc(k.c.h, k.c.reuse, "str", Append(k.str, 0)), v, mem_size,
                       mvalue)

\* The while (1) of cjson_parse_object: mem_size members are staged and
\* mvalue is what member.value holds.
ObjectLoop(c, v, mem_size, mvalue) ==
    IF At(c.json, c.p) # CH.dq
    THEN ObjectFail(c, v, mem_size, CJSON_PARSE_MISS_KEY)
    ELSE ObjectKey(cjson_parse_string_raw(c), v, mem_size, mvalue)

\* c is the context after the whitespace that follows '{'.
ObjectBody(c, v) ==
    IF At(c.json, c.p) = CH.rbrace
    THEN [ret |-> CJSON_PARSE_OK, c |-> [c EXCEPT !.p = @ + 1],
          v |-> [v EXCEPT !.type = CJSON_OBJECT, !.p = 0, !.n = 0]]
    ELSE ObjectLoop(c, v, 0, Indeterminate)

cjson_parse_object(c, v) == ObjectBody(cjson_parse_whitespace([c EXCEPT !.p = @ + 1]), v)

cjson_parse_value_end_is_invalid(c, v) ==
    CASE At(c.json, c.p) = CH.t -> cjson_parse_str(c, v, <<116, 114, 117, 101>>, CJSON_TRUE)
      [] At(c.json, c.p) = CH.f -> cjson_parse_str(c, v, <<102, 97, 108, 115, 101>>, CJSON_FALSE)
      [] At(c.json, c.p) = CH.n -> cjson_parse_str(c, v, <<110, 117, 108, 108>>, CJSON_NULL)
      [] At(c.json, c.p) = CH.dq -> cjson_parse_string(c, v)
      [] At(c.json, c.p) = CH.lbrack -> cjson_parse_array(c, v)
      [] At(c.json, c.p) = CH.lbrace -> cjson_parse_object(c, v)
      [] At(c.json, c.p) = CH.nul -> [ret |-> CJSON_PARSE_INVALID_VALUE, c |-> c, v |-> v]
      [] OTHER -> cjson_parse_number(c, v)

cjson_parse_value(c, v) ==
    CASE At(c.json, c.p) = CH.t -> cjson_parse_str(c, v, <<116, 114, 117, 101>>, CJSON_TRUE)
      [] At(c.json, c.p) = CH.f -> cjson_parse_str(c, v, <<102, 97, 108, 115, 101>>, CJSON_FALSE)
      [] At(c.json, c.p) = CH.n -> cjson_parse_str(c, v, <<110, 117, 108, 108>>, CJSON_NULL)
      [] At(c.json, c.p) = CH.dq -> cjson_parse_string(c, v)
      [] At(c.json, c.p) = CH.lbrack -> cjson_parse_array(c, v)
      [] At(c.json, c.p) = CH.lbrace -> cjson_parse_object(c, v)
      [] At(c.json, c.p) = CH.nul -> [ret |-> CJSON_PARSE_EXPECT_VALUE, c |-> c, v |-> v]
      [] OTHER -> cjson_parse_number(c, v)

(***************************************************************************)
(* cjson_parse.  An input is [null |-> TRUE] for the NULL pointer or       *)
(* [null |-> FALSE, s |-> bytes].  The result carries the return state,    *)
(* the output value, the heap and the context as free(context.stack)       *)
(* found it.                                                               *)
(***************************************************************************)
NullInput == [null |-> TRUE, s |-> <<>>]
Input(s) == [null |-> FALSE, s |-> s]

NoContext == [json |-> <<>>, p |-> 1, stack |-> <<>>, size |-> 0, cap |-> 0, top |-> 0,
              fits |-> TRUE, hung |-> FALSE, h |-> EmptyHeap, stale |-> FALSE,
              reuse |-> FALSE, released |-> 0, far |-> 0]

\* value->type = CJSON_NULL; state = CJSON_PARSE_ROOT_NOT_SINGULAR;
RootNotSingular(v) == [v EXCEPT !.type = CJSON_NULL]

\* The bytes after the root value; c is the context after the whitespace
\* that follows it.
ParseEnd(c, v) ==
    IF At(c.json, c.p) # CH.nul
    THEN [state |-> CJSON_PARSE_ROOT_NOT_SINGULAR, value |-> RootNotSingular(v),
          h |-> c.h, c |-> c]
    ELSE [state |-> CJSON_PARSE_OK, value |-> v, h |-> c.h, c |-> c]

\* The part of cjson_parse after cjson_parse_value returned r.
ParseRoot(r) ==
    IF r.ret = CJSON_PARSE_OK THEN ParseEnd(cjson_parse_whitespace(r.c), r.v)
    ELSE [state |-> r.ret, value |-> r.v, h |-> r.c.h, c |-> r.c]

\* free(stack): a release of the buffer unless the pointer is NULL.  cap
\* stays the allocated length the call found.
FreeStack(c) == [c EXCEPT !.released = @ + (IF c.cap > 0 THEN 1 ELSE 0)]

ParseFree_skips_errors(r) ==
    IF r.state = CJSON_PARSE_OK THEN [r EXCEPT !.c = FreeStack(@)] ELSE r

\* free(context.stack); return state;
ParseFree(r) == [r EXCEPT !.c = FreeStack(@)]

cjson_parse(in, v, h, stale, reuse) ==
    IF in.null
    THEN [state |-> CJSON_PARSE_EXPECT_VALUE,
          value |-> [v EXCEPT !.type = CJSON_NULL], h |-> h, c |-> NoContext]
    ELSE ParseFree(ParseRoot(cjson_parse_value(
             cjson_parse_whitespace([NoContext EXCEPT !.json = in.s, !.h = h,
                                                      !.stale = stale, !.reuse = reuse]),
             [v EXCEPT !.type = CJSON_NULL])))

(***************************************************************************)
(* The serializer.                                                         *)
(***************************************************************************)
AppendBytes(c, bytes) ==
    [c EXCEPT !.stack = @ \o [i \in 1..Len(bytes) |-> [sz |-> 1, x |-> bytes[i]]]]

\* PUTS(c, str, len)
PUTS(c, str) == AppendBytes(cjson_context_push(c, Len(str)), str)

\* push(c, reserve), a write of bytes into the region, and the rewind of top
\* by the part of the region left unused.
ReserveWrite(c, reserve, bytes) ==
    [AppendBytes(cjson_context_push(c, reserve), bytes)
        EXCEPT !.top = @ - (reserve - Len(bytes))]

hex_digits == <<48, 49, 50, 51, 52, 53, 54, 55, 56, 57, 65, 66, 67, 68, 69, 70>>

EscapeByte(ch) ==
    CASE ch = CH.dq -> <<CH.bslash, CH.dq>>
      [] ch = CH.bslash -> <<CH.bslash, CH.bslash>>
      [] ch = CH.bs -> <<CH.bslash, CH.b>>
      [] ch = CH.ff -> <<CH.bslash, CH.f>>
      [] ch = CH.lf -> <<CH.bslash, CH.n>>
      [] ch = CH.cr -> <<CH.bslash, CH.r>>
      [] ch = CH.tab -> <<CH.bslash, CH.t>>
      [] OTHER ->
           IF ch < 32
           THEN <<CH.bslash, CH.u, CH.zero, CH.zero,
                  hex_digits[(ch \div 16) + 1], hex_digits[(ch % 16) + 1]>>
           ELSE <<ch>>

\* The bytes the for loop of cjson_stringify_string writes for str[i..].
StringifyBytes(str, i) ==
    IF i > Len(str) THEN <<>> ELSE EscapeByte(str[i]) \o StringifyBytes(str, i + 1)

cjson_stringify_string(c, str, len) ==
    ReserveWrite(c, len * 6 + 2,
                 <<CH.dq>> \o StringifyBytes(SubSeq(str, 1, len), 1) \o <<CH.dq>>)

Zeros(k) == [i \in 1..k |-> CH.zero]

\* sprintf("%.17g") of a double the model holds exactly.
Sprintf17g(d) ==
    LET D == IntDigits(d.mant)
        X == Order(d)
        k == Len(D) + d.exp
        sign == IF d.neg THEN <<CH.minus>> ELSE <<>>
        ax == IF X < 0 THEN 0 - X ELSE X
        ed == IF ax < 10 THEN <<CH.zero>> \o IntDigits(ax) ELSE IntDigits(ax)
    IN  IF d.inf THEN sign \o <<105, 110, 102>>
        ELSE IF d.mant = 0 THEN sign \o <<CH.zero>>
        ELSE IF X < 0 - 4 \/ X >= 17
        THEN sign \o <<D[1]>>
             \o (IF Len(D) > 1 THEN <<CH.dot>> \o SubSeq(D, 2, Len(D)) ELSE <<>>)
             \o <<CH.e, IF X < 0 THEN CH.minus ELSE CH.plus>> \o ed
        ELSE IF d.exp >= 0 THEN sign \o D \o Zeros(d.exp)
        ELSE IF k > 0 THEN sign \o SubSeq(D, 1, k) \o <<CH.dot>> \o SubSeq(D, k + 1, Len(D))
        ELSE sign \o <<CH.zero, CH.dot>> \o Zeros(0 - k) \o D

\* Elements from index i on (counted from 1); the result of each nested call
\* is dropped.
StringifyElements(c, h, v, i) ==
    IF i > v.n THEN c
    ELSE StringifyElements(
             cjson_stringify_value(IF i > 1 THEN PUTC(c, CH.comma) ELSE c, h,
                                   h.blocks[v.p].data[i]).c,
             h, v, i + 1)

StringifyMembers(c, h, v, i) ==
    IF i > v.n THEN c
    ELSE LET m == h.blocks[v.p].data[i]
             c1 == IF i > 1 THEN PUTC(c, CH.comma) ELSE c
             c2 == PUTC(cjson_stringify_string(c1, h.blocks[m.key].data, m.klen), CH.colon)
         IN  StringifyMembers(cjson_stringify_value(c2, h, m.value).c, h, v, i + 1)

cjson_stringify_value(c, h, v) ==
    CASE v.type = CJSON_NULL -> [ret |-> 0, c |-> PUTS(c, <<110, 117, 108, 108>>)]
      [] v.type = CJSON_FALSE -> [ret |-> 0, c |-> PUTS(c, <<102, 97, 108, 115, 101>>)]
      [] v.type = CJSON_TRUE -> [ret |-> 0, c |-> PUTS(c, <<116, 114, 117, 101>>)]
      [] v.type = CJSON_NUMBER -> [ret |-> 0, c |-> ReserveWrite(c, 32, Sprintf17g(v.number))]
      [] v.type = CJSON_STRING ->
           [ret |-> 0, c |-> cjson_stringify_string(c, h.blocks[v.p].data, v.n)]
      [] v.type = CJSON_ARRAY ->
           [ret |-> 0,
            c |-> PUTC(StringifyElements(PUTC(c, CH.lbrack), h, v, 1), CH.rbrack)]
      [] v.type = CJSON_OBJECT ->
           [ret |-> 0,
            c |-> PUTC(StringifyMembers(PUTC(c, CH.lbrace), h, v, 1), CH.rbrace)]
      [] OTHER -> [ret |-> 0 - 1, c |-> c]

\* context.size is not assigned before the first push: entry is the value it
\* happens to hold.  The result is the returned pointer (null for NULL, else
\* the bytes before the terminator), *length, and the context at return.
cjson_stringify(h, v, entry) ==
    LET c0 == [NoContext EXCEPT !.size = entry, !.cap = CJSON_STRINGIFY_STACI_INIT_SIZE]
        r == cjson_stringify_value(c0, h, v)
    IN  IF r.ret < 0
        THEN [null |-> TRUE, s |-> <<>>, length |-> 0, c |-> [FreeStack(r.c) EXCEPT !.cap = 0]]
        ELSE [null |-> FALSE, s |-> Payload(r.c.stack), length |-> r.c.top,
              c |-> PUTC(r.c, CH.nul)]

(***************************************************************************)
(* Key lookup and structural equality.                                     *)
(***************************************************************************)
\* memcmp(x, y, len) == 0
SameBytes(x, y, len) == \A i \in 1..len : x[i] = y[i]

\* The loop of cjson_find_key_index from index i (counted from 0); its bound
\* is value->size, the count word of the union.
FindLoop(h, v, key, klen, i) ==
    IF i >= v.n THEN 0 - 1
    ELSE LET m == h.blocks[v.p].data[i + 1]
         IN  IF m.klen = klen /\ SameBytes(h.blocks[m.key].data, key, klen) THEN i
             ELSE FindLoop(h, v, key, klen, i + 1)

\* The lookup with strncmp in place of memcmp: bytes after a zero byte are
\* not compared.
FindLoopStr(h, v, key, klen, i) ==
    IF i >= v.n THEN 0 - 1
    ELSE IF /\ h.blocks[v.p].data[i + 1].klen = klen
            /\ \A k \in 1..klen :
                   (\A j \in 1..(k - 1) : key[j] # 0)
                       => h.blocks[h.blocks[v.p].data[i + 1].key].data[k] = key[k]
         THEN i
         ELSE FindLoopStr(h, v, key, klen, i + 1)

cjson_find_key_index_strncmp(h, v, key, klen) == FindLoopStr(h, v, key, klen, 0)

cjson_find_key_index(h, v, key, klen) == FindLoop(h, v, key, klen, 0)

\* found is FALSE for the NULL return.
cjson_find_key_value(h, v, key, klen) ==
    LET index == cjson_find_key_index(h, v, key, klen)
    IN  IF index >= 0 THEN [found |-> TRUE, v |-> h.blocks[v.p].data[index + 1].value]
        ELSE [found |-> FALSE, v |-> NullValue]

\* The array loop of cjson_is_equal from index i (counted from 1).
EqualElements(h, lhs, rhs, i, result) ==
    IF i > lhs.n \/ result < 0 THEN result
    ELSE EqualElements(h, lhs, rhs, i + 1,
             IF cjson_is_equal(h, h.blocks[lhs.p].data[i], h.blocks[rhs.p].data[i]) = 0
             THEN result ELSE 0 - 1)

EqualMembers(h, lhs, rhs, i, result) ==
    IF i > lhs.n \/ result < 0 THEN result
    ELSE LET m == h.blocks[lhs.p].data[i]
             temp == cjson_find_key_value(h, rhs, h.blocks[m.key].data, m.klen)
         IN  IF ~temp.found THEN 0 - 1
             ELSE EqualMembers(h, lhs, rhs, i + 1,
                      IF cjson_is_equal(h, m.value, temp.v) = 0 THEN result ELSE 0 - 1)

cjson_is_equal(h, lhs, rhs) ==
    IF lhs.type # rhs.type THEN 0 - 1
    ELSE CASE lhs.type = CJSON_NUMBER ->
                IF NumberEq(lhs.number, rhs.number) THEN 0 ELSE 0 - 1
           [] lhs.type = CJSON_STRING ->
                IF lhs.n = rhs.n /\ SameBytes(h.blocks[lhs.p].data, h.blocks[rhs.p].data, lhs.n)
                THEN 0 ELSE 0 - 1
           [] lhs.type = CJSON_ARRAY ->
                EqualElements(h, lhs, rhs, 1, IF lhs.n # rhs.n THEN 0 - 1 ELSE 0)
           [] lhs.type = CJSON_OBJECT ->
                EqualMembers(h, lhs, rhs, 1, IF lhs.n # rhs.n THEN 0 - 1 ELSE 0)
           [] OTHER -> 0

(***************************************************************************)
(* Inputs.                                                                 *)
(***************************************************************************)
\* All sequences over set of length at most k.
SeqsUpTo(set, k) == UNION {[1..m -> set] : m \in 0..k}

\* Lexemes placed, MaxTokens at a time, into each context below:
\*   [  ]  {  }  ,  :  space  "a"  1  0  -  null  true  false  1e999  "
Tokens ==
    {<<91>>, <<93>>, <<123>>, <<125>>, <<44>>, <<58>>, <<32>>, <<34, 97, 34>>,
     <<49>>, <<48>>, <<45>>, <<110, 117, 108, 108>>, <<116, 114, 117, 101>>,
     <<102, 97, 108, 115, 101>>, <<49, 101, 57, 57, 57>>, <<34>>}

\* The root;  [ ... ];  ["b", ... ];  {"a": ... };  {"a":"b","a": ... }
Contexts ==
    {[pre |-> <<>>, post |-> <<>>],
     [pre |-> <<91>>, post |-> <<93>>],
     [pre |-> <<91, 34, 98, 34, 44>>, post |-> <<93>>],
     [pre |-> <<123, 34, 97, 34, 58>>, post |-> <<125>>],
     [pre |-> <<123, 34, 97, 34, 58, 34, 98, 34, 44, 34, 97, 34, 58>>, post |-> <<125>>]}

Inputs ==
    {NullInput} \cup
    {Input(x.pre \o Flatten(mid) \o x.post) :
        x \in Contexts, mid \in SeqsUpTo(Tokens, MaxTokens)}

\* What may stand between the quotes of a string:
\*   a  \n  \/  \  \v  \u  é  €  \uD800  \uDC00
\*   and the raw bytes 01, 80 and C3 A9
Units ==
    {<<97>>, <<92, 110>>, <<92, 47>>, <<92>>, <<92, 118>>, <<92, 117>>,
     <<92, 117, 48, 48, 101, 57>>, <<92, 117, 50, 48, 65, 67>>,
     <<92, 117, 68, 56, 48, 48>>, <<92, 117, 68, 67, 48, 48>>,
     <<1>>, <<128>>, <<195, 169>>}

\* A string value at the root, and a string as the key of an object; each
\* with and without its closing quote.
StringContexts ==
    {[pre |-> <<34>>, post |-> <<34>>],
     [pre |-> <<34>>, post |-> <<>>],
     [pre |-> <<123, 34>>, post |-> <<34, 58, 49, 125>>],
     [pre |-> <<123, 34>>, post |-> <<>>]}

StringInputs ==
    {Input(x.pre \o Flatten(mid) \o x.post) :
        x \in StringContexts, mid \in SeqsUpTo(Units, MaxTokens)}

\* "a":0   "a":1   "b":1
Members == {<<34, 97, 34, 58, 48>>, <<34, 97, 34, 58, 49>>, <<34, 98, 34, 58, 49>>}

RECURSIVE Join(_)
Join(ms) ==
    IF ms = <<>> THEN <<>>
    ELSE IF Len(ms) = 1 THEN ms[1]
    ELSE ms[1] \o <<44>> \o Join(Tail(ms))

ObjectInputs == {Input(<<123>> \o Join(ms) \o <<125>>) : ms \in SeqsUpTo(Members, MaxMembers)}

\* The values context.size may hold when cjson_stringify is entered.
EntrySizes == {0, 1, CJSON_STRINGIFY_STACI_INIT_SIZE}

(***************************************************************************)
(* The harness: value[1] = parse(json); text = stringify(value[1]);        *)
(* value[2] = parse(json2 ? json2 : text); three comparisons; then         *)
(* release of value[1] twice and of value[2].                              *)
(***************************************************************************)
NoText == [null |-> TRUE, s |-> <<>>, length |-> 0]

Summary(c) ==
    [top |-> c.top, size |-> c.size, cap |-> c.cap, fits |-> c.fits, released |-> c.released,
     far |-> c.far]

InitWith(in1, in2) ==
    /\ json = in1
    /\ json2 = in2
    /\ value = <<NullValue, NullValue>>
    /\ state = <<CJSON_PARSE_NULL, CJSON_PARSE_NULL>>
    /\ \E scrub \in BOOLEAN : heap = [EmptyHeap EXCEPT !.scrub = scrub]
    /\ text = NoText
    /\ eq = <<>>
    /\ frees = <<>>
    /\ pctx = <<>>
    /\ sctx = Summary(NoContext)
    /\ pc = "parse1"

Init == \E in \in Inputs \cup StringInputs : InitWith(in, NullInput)

InitEq ==
    \E in1 \in ObjectInputs, in2 \in ObjectInputs \cup {NullInput} : InitWith(in1, in2)

\* A free of a block that is not live is undefined: the allocator may end
\* the process there (abort) or let the call go on.
Aborted == pc' = "aborted" /\ UNCHANGED <<json, json2, value, state, heap, text, eq, frees, pctx, sctx>>

ParseInto(slot, in, next) ==
    \E stale \in BOOLEAN, reuse \in BOOLEAN, abort \in BOOLEAN :
        LET r == cjson_parse(in, value[slot], heap, stale, reuse)
        IN  /\ abort => r.h.bad > heap.bad
            /\ IF abort THEN Aborted
               ELSE /\ value' = [value EXCEPT ![slot] = r.value]
                    /\ state' = [state EXCEPT ![slot] = r.state]
                    /\ heap' = r.h
                    /\ pctx' = Append(pctx, Summary(r.c))
                    /\ pc' = next
                    /\ UNCHANGED <<json, json2, text, eq, frees, sctx>>

Parse1 == pc = "parse1" /\ ParseInto(1, json, "stringify")

Stringify ==
    /\ pc = "stringify"
    /\ \E entry \in EntrySizes :
        LET r == cjson_stringify(heap, value[1], entry)
        IN  /\ text' = IF r.c.hung THEN text
                       ELSE [null |-> r.null, s |-> r.s, length |-> r.length]
            /\ sctx' = Summary(r.c)
            /\ pc' = IF r.c.hung THEN "hung" ELSE "parse2"
    /\ UNCHANGED <<json, json2, value, state, heap, eq, frees, pctx>>

Parse2 ==
    /\ pc = "parse2"
    /\ ParseInto(2, IF json2.null THEN [null |-> text.null, s |-> text.s] ELSE json2, "equal")

EqPairs == <<(<<1, 1>>), (<<1, 2>>), (<<2, 1>>)>>

IsEqual ==
    /\ pc = "equal"
    /\ LET pair == EqPairs[Len(eq) + 1]
       IN  eq' = Append(eq, cjson_is_equal(heap, value[pair[1]], value[pair[2]]))
    /\ pc' = IF Len(eq) + 1 = Len(EqPairs) THEN "free" ELSE "equal"
    /\ UNCHANGED <<json, json2, value, state, heap, text, frees, pctx, sctx>>

FreeSlots == <<1, 1, 2>>

FreeValue ==
    /\ pc = "free"
    /\ \E abort \in BOOLEAN :
        LET slot == FreeSlots[Len(frees) + 1]
            r == cjson_free_value(heap, value[slot])
        IN  /\ abort => r.h.bad > heap.bad
            /\ IF abort THEN Aborted
               ELSE /\ heap' = r.h
                    /\ value' = [value EXCEPT ![slot] = r.v]
                    /\ frees' = Append(frees,
                           [slot |-> slot, before |-> value[slot].type, after |-> r.v.type,
                            released |-> Cardinality(LiveBlocks(heap) \ LiveBlocks(r.h))])
                    /\ pc' = IF Len(frees) + 1 = Len(FreeSlots) THEN "done" ELSE "free"
                    /\ UNCHANGED <<json, json2, state, text, eq, pctx, sctx>>

Next == Parse1 \/ Stringify \/ Parse2 \/ IsEqual \/ FreeValue

Spec == Init /\ [][Next]_vars

SpecEq == InitEq /\ [][Next]_vars

\* A node of the tree carries a tag outside cjson_type.
RECURSIVE HasUnknownTag(_, _)
RECURSIVE ElementHasUnknownTag(_, _, _)
ElementHasUnknownTag(h, v, i) ==
    IF i > v.n THEN FALSE
    ELSE \/ HasUnknownTag(h, IF v.type = CJSON_ARRAY THEN h.blocks[v.p].data[i]
                                ELSE h.blocks[v.p].data[i].value)
         \/ ElementHasUnknownTag(h, v, i + 1)

HasUnknownTag(h, v) ==
    \/ v.type \notin CJSON_NULL..CJSON_OBJECT
    \/ v.type \in {CJSON_ARRAY, CJSON_OBJECT} /\ v.n > 0 /\ ElementHasUnknownTag(h, v, 1)

\* The caller writes a tag outside cjson_type into the parsed tree
\* (value.type = PARSE_WRONG_TYPE): into the root, or into an element or a
\* member value of the root.
SetType ==
    /\ pc = "stringify"
    /\ state[1] = CJSON_PARSE_OK
    /\ ~HasUnknownTag(heap, value[1])
    /\ \/ /\ value' = [value EXCEPT ![1].type = PARSE_WRONG_TYPE]
          /\ heap' = heap
       \/ /\ value[1].type = CJSON_ARRAY
          /\ \E i \in 1..value[1].n :
                 heap' = [heap EXCEPT !.blocks[value[1].p].data[i].type = PARSE_WRONG_TYPE]
          /\ value' = value
       \/ /\ value[1].type = CJSON_OBJECT
          /\ \E i \in 1..value[1].n :
                 heap' = [heap EXCEPT
                             !.blocks[value[1].p].data[i].value.type = PARSE_WRONG_TYPE]
          /\ value' = value
    /\ UNCHANGED <<json, json2, state, text, eq, frees, pctx, sctx, pc>>

NextTag == Parse1 \/ SetType \/ Stringify \/ Parse2 \/ IsEqual \/ FreeValue

SpecTag == Init /\ [][NextTag]_vars

\* The inputs cut off after any number of bytes: text that ends inside a
\* value, a string, an array or an object.
Prefixes(ins) == UNION {{Input(SubSeq(in.s, 1, k)) : k \in 0..Len(in.s)} : in \in ins \ {NullInput}}

\* 1e99 is not a double that the number codec represents exactly, so the
\* prefixes that cut 1e999 down to it are left out.
EndsInexact(in) ==
    Len(in.s) >= 3 /\ SubSeq(in.s, Len(in.s) - 2, Len(in.s)) = <<CH.e, CH.nine, CH.nine>>

InitEnd ==
    \E in \in {x \in Prefixes(Inputs \cup StringInputs) : ~EndsInexact(x)} \cup {NullInput} :
        InitWith(in, NullInput)

\* The truncated inputs are parsed and nothing more is done with them.
NextEnd == Parse1

SpecEnd == InitEnd /\ [][NextEnd]_vars

\* Members for the lookups, among them keys with an embedded zero byte and
\* the empty key:
\*   "a":0   "a":1   "b":1   "a\u0000x":0   "a\u0000y":1   "":0
FindMembers ==
    Members \cup
    {<<34, 97, 92, 117, 48, 48, 48, 48, 120, 34, 58, 48>>,
     <<34, 97, 92, 117, 48, 48, 48, 48, 121, 34, 58, 49>>,
     <<34, 34, 58, 48>>}

FindInputs ==
    {Input(<<123>> \o Join(ms) \o <<125>>) : ms \in SeqsUpTo(FindMembers, MaxMembers)}

\* The key and klen arguments: klen bytes of key are compared, and key may
\* hold more bytes than klen.
FindKeys ==
    {[key |-> <<>>, klen |-> 0], [key |-> <<97>>, klen |-> 1], [key |-> <<98>>, klen |-> 1],
     [key |-> <<97, 98>>, klen |-> 1], [key |-> <<97, 0>>, klen |-> 2],
     [key |-> <<97, 0, 120>>, klen |-> 3], [key |-> <<97, 0, 121>>, klen |-> 3]}

InitFind == \E in \in FindInputs : InitWith(in, NullInput)

\* One call of cjson_find_key_index and of cjson_find_key_value on the
\* parsed object; under SpecFind eq holds what was asked and what came back.
FindKey ==
    /\ pc = "stringify"
    /\ state[1] = CJSON_PARSE_OK /\ value[1].type = CJSON_OBJECT
    /\ Len(eq) < MaxLookups
    /\ \E k \in FindKeys :
           eq' = Append(eq, [key |-> k.key, klen |-> k.klen,
                             index |-> cjson_find_key_index(heap, value[1], k.key, k.klen),
                             ret |-> cjson_find_key_value(heap, value[1], k.key, k.klen)])
    /\ UNCHANGED <<json, json2, value, state, heap, text, frees, pctx, sctx, pc>>

NextFind == Parse1 \/ FindKey

SpecFind == InitFind /\ [][NextFind]_vars

(***************************************************************************)
(* Observers of a tree in a heap.                                          *)
(***************************************************************************)
\* The pointers a tree holds, one entry per place that holds one: the str
\* of a String, the backing of an Array or Object, the key of each member,
\* and what the elements and member values hold in turn.
RECURSIVE RefsOf(_, _)
RECURSIVE ElementRefs(_, _, _)
RECURSIVE MemberRefs(_, _, _)
ElementRefs(h, v, i) ==
    IF i > v.n THEN <<>>
    ELSE RefsOf(h, h.blocks[v.p].data[i]) \o ElementRefs(h, v, i + 1)

MemberRefs(h, v, i) ==
    IF i > v.n THEN <<>>
    ELSE <<h.blocks[v.p].data[i].key>> \o RefsOf(h, h.blocks[v.p].data[i].value)
         \o MemberRefs(h, v, i + 1)

RefsOf(h, v) ==
    CASE v.type = CJSON_STRING -> <<v.p>>
      [] v.type = CJSON_ARRAY /\ v.n > 0 -> <<v.p>> \o ElementRefs(h, v, 1)
      [] v.type = CJSON_OBJECT /\ v.n > 0 -> <<v.p>> \o MemberRefs(h, v, 1)
      [] OTHER -> <<>>

\* Every block the sequence of pointers names is live and is named once.
LiveAndUnshared(h, refs) ==
    /\ \A i \in 1..Len(refs) : refs[i] \in LiveBlocks(h)
    /\ \A i \in 1..Len(refs), j \in 1..Len(refs) : refs[i] = refs[j] => i = j

Exclusive(h, v) == LiveAndUnshared(h, RefsOf(h, v))

\* The byte sequences of the String payloads and object keys of a tree.
RECURSIVE StringsOf(_, _)
RECURSIVE ElementStrings(_, _, _)
RECURSIVE MemberStrings(_, _, _)
ElementStrings(h, v, i) ==
    IF i > v.n THEN <<>>
    ELSE StringsOf(h, h.blocks[v.p].data[i]) \o ElementStrings(h, v, i + 1)

MemberStrings(h, v, i) ==
    IF i > v.n THEN <<>>
    ELSE <<SubSeq(h.blocks[h.blocks[v.p].data[i].key].data, 1, h.blocks[v.p].data[i].klen)>>
         \o StringsOf(h, h.blocks[v.p].data[i].value)
         \o MemberStrings(h, v, i + 1)

StringsOf(h, v) ==
    CASE v.type = CJSON_STRING -> <<SubSeq(h.blocks[v.p].data, 1, v.n)>>
      [] v.type = CJSON_ARRAY /\ v.n > 0 -> ElementStrings(h, v, 1)
      [] v.type = CJSON_OBJECT /\ v.n > 0 -> MemberStrings(h, v, 1)
      [] OTHER -> <<>>

\* Well-formed UTF-8 (Unicode 15, table 3-7): no overlong form, no encoded
\* surrogate, nothing above U+10FFFF.
Cont(b, lo, hi) == b >= lo /\ b <= hi

Utf8Valid(bytes) ==
    IF bytes = <<>> THEN TRUE
    ELSE IF bytes[1] <= 127 THEN Utf8Valid(Tail(bytes))
    ELSE IF Cont(bytes[1], 194, 223)
    THEN Cont(At(bytes, 2), 128, 191) /\ Utf8Valid(SubSeq(bytes, 3, Len(bytes)))
    ELSE IF Cont(bytes[1], 224, 239)
    THEN /\ Cont(At(bytes, 2), IF bytes[1] = 224 THEN 160 ELSE 128,
                 IF bytes[1] = 237 THEN 159 ELSE 191)
         /\ Cont(At(bytes, 3), 128, 191)
         /\ Utf8Valid(SubSeq(bytes, 4, Len(bytes)))
    ELSE IF Cont(bytes[1], 240, 244)
    THEN /\ Cont(At(bytes, 2), IF bytes[1] = 240 THEN 144 ELSE 128,
                 IF bytes[1] = 244 THEN 143 ELSE 191)
         /\ Cont(At(bytes, 3), 128, 191)
         /\ Cont(At(bytes, 4), 128, 191)
         /\ Utf8Valid(SubSeq(bytes, 5, Len(bytes)))
    ELSE FALSE

(***************************************************************************)
(* Shapes of input text.                                                   *)
(***************************************************************************)
\* The text is in the serializer's shape: outside strings no whitespace and
\* numbers as integers of at most 16 digits without fraction or exponent;
\* inside strings only the escapes \" \\ \b \f \n \r \t and, for the other
\* control bytes, \u00XX with upper-case digits.
CanonicalShort == {CH.dq, CH.bslash, CH.b, CH.f, CH.n, CH.r, CH.t}

CanonicalControl(s, i) ==
    /\ At(s, i + 1) = CH.u /\ At(s, i + 2) = CH.zero /\ At(s, i + 3) = CH.zero
    /\ At(s, i + 4) \in {CH.zero, CH.one}
    /\ At(s, i + 5) \in (CH.zero..CH.nine) \cup (CH.A..CH.F)
    /\ 16 * (At(s, i + 4) - CH.zero) + HexDigit(At(s, i + 5)) \notin {8, 9, 10, 12, 13}

\* The digits of a number lie in p1..p2-1.
CanonicalInteger(s, p1, p2) ==
    /\ p2 > p1 /\ p2 - p1 <= 16
    /\ At(s, p1) = CH.zero => p2 = p1 + 1
    /\ At(s, p2) \notin {CH.dot, CH.e, CH.E}

RECURSIVE CanonicalFrom(_, _, _)
CanonicalFrom(s, i, instr) ==
    IF i > Len(s) THEN ~instr
    ELSE IF instr
    THEN IF s[i] = CH.dq THEN CanonicalFrom(s, i + 1, FALSE)
         ELSE IF s[i] # CH.bslash THEN CanonicalFrom(s, i + 1, TRUE)
         ELSE IF At(s, i + 1) \in CanonicalShort THEN CanonicalFrom(s, i + 2, TRUE)
         ELSE CanonicalControl(s, i) /\ CanonicalFrom(s, i + 6, TRUE)
    ELSE IF s[i] = CH.dq THEN CanonicalFrom(s, i + 1, TRUE)
         ELSE IF s[i] \in {CH.sp, CH.tab, CH.lf, CH.cr} THEN FALSE
         ELSE IF s[i] \in Digits \cup {CH.minus}
         THEN /\ CanonicalInteger(s, NumSign(s, i), SkipWhile(s, NumSign(s, i), Digits))
              /\ CanonicalFrom(s, SkipWhile(s, NumSign(s, i), Digits), FALSE)
         ELSE CanonicalFrom(s, i + 1, FALSE)

Canonical(s) == CanonicalFrom(s, 1, FALSE)

\* The position of the first byte inside the first string literal of a text
\* that begins with a string or with an object's first key; 0 otherwise.
FirstStringStart(s) ==
    IF At(s, 1) = CH.dq THEN 2
    ELSE IF At(s, 1) = CH.lbrace /\ At(s, 2) = CH.dq THEN 3
    ELSE 0

\* The bytes at from..to-1 are ordinary string bytes: no quote, no
\* backslash, no control byte.
PlainRun(s, from, to) ==
    \A k \in from..(to - 1) : s[k] >= 32 /\ s[k] \notin {CH.dq, CH.bslash}

\* A \u escape with four hex digits starts at i.
EscapeAt(s, i) ==
    At(s, i) = CH.bslash /\ At(s, i + 1) = CH.u /\ cjson_parse_hex4(s, i + 2).ok

EscapeValue(s, i) == cjson_parse_hex4(s, i + 2).u

IsHighSurrogate(u) == u >= 55296 /\ u <= 56319

IsLowSurrogate(u) == u >= 56320 /\ u <= 57343

\* At i: a low surrogate that no high surrogate precedes, or a high
\* surrogate that is not followed by \u and a low surrogate (a \u with bad
\* hex digits after it is the InvalidUnicodeHex case and is left out).
LoneSurrogateAt(s, i) ==
    /\ EscapeAt(s, i)
    /\ \/ IsLowSurrogate(EscapeValue(s, i))
       \/ /\ IsHighSurrogate(EscapeValue(s, i))
          /\ ~(At(s, i + 6) = CH.bslash /\ At(s, i + 7) = CH.u /\ ~EscapeAt(s, i + 6))
          /\ ~(EscapeAt(s, i + 6) /\ IsLowSurrogate(EscapeValue(s, i + 6)))

\* The first thing in the text's first string that is not an ordinary byte
\* is a lone surrogate escape.
LoneSurrogateFirst(s) ==
    /\ FirstStringStart(s) > 0
    /\ \E i \in FirstStringStart(s)..Len(s) :
           PlainRun(s, FirstStringStart(s), i) /\ LoneSurrogateAt(s, i)

(***************************************************************************)
(* The claims.  Parse1 has returned once pctx holds its summary.           *)
(***************************************************************************)
ErrorKinds == CJSON_PARSE_EXPECT_VALUE..CJSON_PARSE_MISS_COMMA_OR_CURLY_BRACKET

AfterParse1 == pc = "stringify"

\* C1: for every input, cjson_parse returns CJSON_PARSE_OK or exactly one
\* error kind, and when it returns an error kind the type of the output
\* value is CJSON_NULL.
C1_ParseReturnsOkOrOneError ==
    pc # "parse1" =>
        /\ Len(pctx) >= 1
        /\ state[1] = CJSON_PARSE_OK \/ state[1] \in ErrorKinds
        /\ state[1] \in ErrorKinds => value[1].type = CJSON_NULL

\* C2: on any failed parse the output value owns no heap resources: every
\* block allocated during the call has been released when cjson_parse
\* returns.
C2_FailedParseOwnsNothing ==
    AfterParse1 /\ state[1] \in ErrorKinds => LiveBlocks(heap) = {}

\* C3: after a successful parse every string buffer, key buffer and
\* array/object backing referenced from the returned tree is live and is
\* referenced from exactly one place.
C3_TreeExclusiveOwnership ==
    AfterParse1 /\ state[1] = CJSON_PARSE_OK => Exclusive(heap, value[1])

\* C4: for every Value V of a successful parse, parsing the text
\* cjson_stringify(V) produced succeeds and gives a Value that
\* cjson_is_equal reports equal to V.
C4_RoundTripEqual ==
    Len(eq) = 3 /\ json2.null /\ state[1] = CJSON_PARSE_OK =>
        state[2] = CJSON_PARSE_OK /\ eq[2] = 0

\* C5: for every canonically formatted text T, cjson_stringify of the parse
\* of T returns exactly the bytes of T and a length equal to the length of T.
C5_TextualRoundTrip ==
    pc = "parse2" /\ state[1] = CJSON_PARSE_OK /\ Canonical(json.s) =>
        ~text.null /\ text.s = json.s /\ text.length = Len(json.s)

\* What cjson_free_value leaves in the tag of a value whose tag was type.
TagAfterFree(type) ==
    IF type \in {CJSON_TRUE, CJSON_FALSE, CJSON_NUMBER} THEN type ELSE CJSON_NULL

C7_EqualityReflexive ==
    Len(eq) >= 1 /\ state[1] = CJSON_PARSE_OK => eq[1] = 0

\* C8: for all Values A and B of successful parses, cjson_is_equal(A, B)
\* reports equal if and only if cjson_is_equal(B, A) reports equal.
C8_EqualitySymmetric ==
    Len(eq) = 3 /\ state[1] = CJSON_PARSE_OK /\ state[2] = CJSON_PARSE_OK =>
        (eq[2] = 0 <=> eq[3] = 0)

\* C9: a \uXXXX escape in [0xDC00, 0xDFFF] with no high surrogate before it,
\* and a high surrogate not followed by \u and a value in [0xDC00, 0xDFFF],
\* make the parse fail with InvalidUnicodeSurrogate.
C9_LoneSurrogateRejected ==
    AfterParse1 /\ ~json.null /\ LoneSurrogateFirst(json.s) =>
        state[1] = CJSON_PARSE_INVALID_UNICODE_SURROGATE

\* C10: every String payload and every object key of a tree returned by a
\* successful parse is a valid UTF-8 byte sequence.
C10_StringsAreUtf8 ==
    AfterParse1 /\ state[1] = CJSON_PARSE_OK =>
        \A i \in 1..Len(StringsOf(heap, value[1])) :
            Utf8Valid(StringsOf(heap, value[1])[i])

\* C11: when the tree handed to cjson_stringify holds a node with an unknown
\* tag at any depth, cjson_stringify returns NULL and its scratch buffer
\* has been released.
C11_UnknownTagFails ==
    pc = "parse2" /\ HasUnknownTag(heap, value[1]) => text.null /\ sctx.cap = 0

\* The text without its trailing whitespace.
RECURSIVE TrimRight(_)
TrimRight(s) ==
    IF s = <<>> \/ s[Len(s)] \notin {CH.sp, CH.tab, CH.lf, CH.cr} THEN s
    ELSE TrimRight(SubSeq(s, 1, Len(s) - 1))

WhitespaceOnly(s) == TrimRight(s) = <<>>

\* Whitespace and '[' only, with at least one '['.
OnlyOpenBrackets(s) ==
    /\ \A i \in 1..Len(s) : s[i] \in {CH.sp, CH.tab, CH.lf, CH.cr, CH.lbrack}
    /\ \E i \in 1..Len(s) : s[i] = CH.lbrack

\* The text stops where an element or a member value of one of the model's
\* input contexts is expected: after '[', after ',' in an array, after ':'.
EndsInContext(s) == \E x \in Contexts : x.pre # <<>> /\ TrimRight(s) = x.pre

\* C12 (as amended): cjson_parse returns ExpectValue when the input is
\* absent, empty or only whitespace, and also when the input ends, after
\* optional whitespace, where an array element or a member value is
\* expected (after '[', after ',' in an array, after ':' in an object);
\* it returns ExpectValue for no input whose last byte before the trailing
\* whitespace is anything but '[', ',' or ':'.
C12_ExpectValueAtEnd ==
    AfterParse1 =>
        /\ json.null \/ WhitespaceOnly(json.s) => state[1] = CJSON_PARSE_EXPECT_VALUE
        /\ ~json.null /\ (OnlyOpenBrackets(json.s) \/ EndsInContext(json.s))
               => state[1] = CJSON_PARSE_EXPECT_VALUE
        /\ state[1] = CJSON_PARSE_EXPECT_VALUE /\ ~json.null /\ ~WhitespaceOnly(json.s)
               => TrimRight(json.s)[Len(TrimRight(json.s))] \in {CH.lbrack, CH.comma, CH.colon}

\* ExpectValue for a text that ends after the ',' of an array.
C12_ExpectValueAfterComma ==
    /\ AfterParse1 /\ ~json.null
    /\ json.s = <<91, 34, 98, 34, 44>>
    /\ state[1] = CJSON_PARSE_EXPECT_VALUE /\ value[1].type = CJSON_NULL

\* C12 as stated: ExpectValue if and only if the input is absent, empty or
\* only whitespace.
C12_ExpectValueOnlyForBlank ==
    AfterParse1 =>
        (state[1] = CJSON_PARSE_EXPECT_VALUE <=> json.null \/ WhitespaceOnly(json.s))

\* From position i the text runs to its end without a closing quote, and
\* what precedes the end is valid: bytes 0x20..0x7F, complete one-letter
\* escapes, complete \uXXXX escapes outside the surrogate range, and
\* possibly a backslash as the very last byte.
RECURSIVE UnterminatedFrom(_, _)
UnterminatedFrom(s, i) ==
    IF i > Len(s) THEN TRUE
    ELSE IF s[i] = CH.dq \/ s[i] < 32 \/ s[i] > 127 THEN FALSE
    ELSE IF s[i] # CH.bslash THEN UnterminatedFrom(s, i + 1)
    ELSE IF i = Len(s) THEN TRUE
    ELSE IF s[i + 1] \in SimpleEscapes THEN UnterminatedFrom(s, i + 2)
    ELSE /\ s[i + 1] = CH.u
         /\ cjson_parse_hex4(s, i + 2).ok
         /\ ~IsHighSurrogate(cjson_parse_hex4(s, i + 2).u)
         /\ ~IsLowSurrogate(cjson_parse_hex4(s, i + 2).u)
         /\ UnterminatedFrom(s, i + 6)

\* C13: a string whose opening quote is followed by the end of the input
\* before a closing quote, all bytes and complete escapes before the end
\* being valid, fails with MissQuotationMark, including when the input ends
\* right after a backslash.
C13_UnterminatedIsMissQuotationMark ==
    AfterParse1 /\ ~json.null /\ Len(json.s) >= 1 /\ json.s[1] = CH.dq
                /\ UnterminatedFrom(json.s, 2)
        => state[1] = CJSON_PARSE_MISS_QUOTATION_MARK

\* C14: after every cjson_context_push of a parse or of a serialization,
\* top <= capacity, the capacity being both the recorded size and the byte
\* length of the backing storage; and the serializer's buffer starts with a
\* recorded capacity of 256 bytes, like its allocation.  (A text that ends
\* below 256 bytes never makes the buffer grow, so the size recorded at
\* return is the one the call started with.)
C14_TopWithinCapacity ==
    /\ \A i \in 1..Len(pctx) :
           pctx[i].fits /\ pctx[i].top <= pctx[i].size /\ pctx[i].size = pctx[i].cap
    /\ pc = "parse2" /\ ~text.null =>
           /\ sctx.fits /\ sctx.top <= sctx.size /\ sctx.size = sctx.cap
           /\ sctx.top < CJSON_STRINGIFY_STACI_INIT_SIZE
                  => sctx.size = CJSON_STRINGIFY_STACI_INIT_SIZE

\* C15: every cjson_parse that returns has released its scratch buffer
\* exactly once if it allocated one (on success, on every error kind and on
\* RootNotSingular), and has released nothing if it allocated none, as for
\* an absent input.
C15_ScratchReleasedOnce ==
    /\ \A i \in 1..Len(pctx) :
           pctx[i].released = (IF pctx[i].cap > 0 THEN 1 ELSE 0)
    /\ AfterParse1 /\ json.null => pctx[1].cap = 0 /\ pctx[1].released = 0

\* A parse that allocated the buffer and failed with RootNotSingular.
C15_ReleasedOnRootNotSingular ==
    /\ AfterParse1 /\ state[1] = CJSON_PARSE_ROOT_NOT_SINGULAR
    /\ pctx[1].cap > 0 /\ pctx[1].released = 1

\* Member i (counted from 1) of the parsed object has the key asked for in
\* the lookup e: the same length and the same klen bytes.
KeyMatches(e, i) ==
    /\ heap.blocks[value[1].p].data[i].klen = e.klen
    /\ SubSeq(heap.blocks[heap.blocks[value[1].p].data[i].key].data, 1, e.klen)
           = SubSeq(e.key, 1, e.klen)

\* C16: cjson_find_key_index returns the smallest index whose member key
\* has the length and the bytes asked for, bytes after an embedded zero
\* included, and -1 when no member has; cjson_find_key_value returns the
\* value of that member, or NULL when the index is -1.
C16_FindKeyFirstMatch ==
    \A n \in 1..Len(eq) :
        IF eq[n].index < 0
        THEN /\ \A i \in 1..value[1].n : ~KeyMatches(eq[n], i)
             /\ ~eq[n].ret.found
        ELSE /\ eq[n].index < value[1].n
             /\ KeyMatches(eq[n], eq[n].index + 1)
             /\ \A i \in 1..eq[n].index : ~KeyMatches(eq[n], i)
             /\ eq[n].ret.found
             /\ eq[n].ret.v = heap.blocks[value[1].p].data[eq[n].index + 1].value

\* The lookup of the key a 00 y in {"a\u0000x":0,"a\u0000y":1} found the
\* second member.
C16_FoundAfterZeroByte ==
    /\ Len(eq) >= 1
    /\ eq[1].key = <<97, 0, 121>> /\ eq[1].klen = 3 /\ eq[1].index = 1
    /\ value[1].n = 2 /\ KeyMatches(eq[1], 2) /\ ~KeyMatches(eq[1], 1)
    /\ heap.blocks[value[1].p].data[1].klen = 3

\* C17: every cjson_parse and every cjson_stringify call terminates; the
\* growth loop of cjson_context_push ends for every size the context can
\* hold when push is entered.
C17_GrowthLoopEnds == pc # "hung"

\* A context in which one item of k bytes is staged: what a sub-parser
\* finds when an enclosing array or object has pushed before calling it.
Staged(s, k, stale, reuse) ==
    [NoContext EXCEPT !.json = s, !.stale = stale, !.reuse = reuse,
                      !.size = CJSON_PARSE_STACK_INIT_SIZE + k,
                      !.cap = CJSON_PARSE_STACK_INIT_SIZE + k,
                      !.top = k, !.stack = <<[sz |-> k, x |-> NullValue]>>]

\* The scratch top when the value dispatcher, and with it the string, array
\* or object parser it calls on s, returns to a caller whose top was k.
TopAfterValue(s, k, stale, reuse) ==
    cjson_parse_value(cjson_parse_whitespace(Staged(s, k, stale, reuse)), NullValue).c.top

\* C18: when a sub-parser (string, array, object, the value dispatcher)
\* returns, with success or with any failure, the scratch top is the top
\* it was entered with; the top is 0 when cjson_parse finishes.
C18_ScratchBalanced ==
    /\ \A i \in 1..Len(pctx) : pctx[i].top = 0
    /\ AfterParse1 /\ ~json.null =>
           \A k \in {SizeofValue, SizeofMember}, stale \in BOOLEAN, reuse \in BOOLEAN :
               TopAfterValue(json.s, k, stale, reuse) = k

\* A parse that failed in an array after it had staged an element.
C18_FailedWithStagedElement ==
    /\ AfterParse1 /\ state[1] = CJSON_PARSE_MISS_COMMA_OR_SQUARE_BRACKET
    /\ pctx[1].cap > 0 /\ pctx[1].top = 0
    /\ TopAfterValue(json.s, SizeofValue, FALSE, FALSE) = SizeofValue

\* s begins with the bytes pre.
HasPrefix(s, pre) == Len(s) >= Len(pre) /\ SubSeq(s, 1, Len(pre)) = pre

\* The number of elements or members that the text of a successfully
\* parsed root array or object of Inputs holds: two after the prefixes
\* ["b", and {"a":"b","a": , one after {"a": , and for [ ... ] one unless
\* only whitespace stands between the brackets.
CountInText(s) ==
    IF HasPrefix(s, <<91, 34, 98, 34, 44>>) THEN 2
    ELSE IF HasPrefix(s, <<123, 34, 97, 34, 58, 34, 98, 34, 44, 34, 97, 34, 58>>) THEN 2
    ELSE IF HasPrefix(s, <<123, 34, 97, 34, 58>>) THEN 1
    ELSE IF WhitespaceOnly(SubSeq(s, 2, Len(s) - 1)) THEN 0
    ELSE 1

\* The strings that the two-element prefixes put first in the tree.
FirstStringsInText(s) ==
    IF HasPrefix(s, <<91, 34, 98, 34, 44>>) THEN <<(<<98>>)>>
    ELSE IF HasPrefix(s, <<123, 34, 97, 34, 58, 34, 98, 34, 44, 34, 97, 34, 58>>)
         THEN <<(<<97>>), (<<98>>), (<<97>>)>>
    ELSE <<>>

\* C19: after a successful parse of an array or object the stored count is
\* the number of elements or members of the text and the length of the
\* backing storage, the elements or members stand in the order of the text,
\* a duplicated key is kept each time it occurs, and an empty array or
\* object has count 0 and no backing storage.
C19_CountAndOrder ==
    AfterParse1 /\ state[1] = CJSON_PARSE_OK /\ json \in Inputs
                /\ value[1].type \in {CJSON_ARRAY, CJSON_OBJECT} =>
        /\ value[1].n = CountInText(json.s)
        /\ IF value[1].n = 0 THEN value[1].p = 0
           ELSE /\ value[1].p \in LiveBlocks(heap)
                /\ Len(heap.blocks[value[1].p].data) = value[1].n
                /\ HasPrefix(StringsOf(heap, value[1]), FirstStringsInText(json.s))

\* C20: no step of the parser reads a byte of the input that lies after
\* the first zero byte, the terminator at position Len + 1.
C20_NoReadPastTerminator ==
    AfterParse1 /\ ~json.null => pctx[1].far >= 1 /\ pctx[1].far <= Len(json.s) + 1

\* A \u escape cut off by the end of the input: the decoder read the
\* terminator and stopped.
C20_HexStoppedAtTerminator ==
    /\ AfterParse1 /\ state[1] = CJSON_PARSE_INVALID_UNICODE_HEX
    /\ Len(json.s) >= 3
    /\ SubSeq(json.s, Len(json.s) - 1, Len(json.s)) = <<CH.bslash, CH.u>>
    /\ pctx[1].far = Len(json.s) + 1

====
